---- MODULE Spec2Model ----
(***************************************************************************)
(* SignMeet backend (backend/server.py): the REST handlers over the        *)
(* MongoDB collections rooms / participants / captions and the Socket.IO   *)
(* event handlers over the server's room table.                            *)
(*                                                                         *)
(* Every `await` of a REST handler that reaches the database or the        *)
(* Socket.IO server is one step of the model, so handlers of different     *)
(* requests interleave exactly where the event loop lets them.  A socket   *)
(* event handler is one step: enter_room / leave_room and the recipient    *)
(* list of emit are computed without yielding to the event loop.           *)
(*                                                                         *)
(* Spec is the whole server.  SpecRegistry, SpecRooms, SpecSignaling,      *)
(* SpecCaptions, SpecBroadcast and SpecSocket run the same actions from    *)
(* the same initial state, each restricted to the handlers of one          *)
(* subsystem and the inputs that reach it.                                 *)
(***************************************************************************)
EXTENDS Integers, Sequences, FiniteSets, TLC

\* ---------------------------------------------------------------- bounds
\* Number of client inputs (REST requests and socket events) in one run.
MaxOps == 6

\* ------------------------------------------------------------ identifiers
\* Python's None (an absent field of an event payload, a null JSON value).
None == "None"

\* uuid4 values and engine.io session ids, in the order they are handed out.
SidOrder == <<"s1", "s2", "s3">>
RoomOrder == <<"r1", "r2">>
PidOrder == <<"p1", "p2", "p3">>
CaptionOrder == <<"c1">>
\* ParticipantCreate.name of the n-th join request.
NameOrder == <<"Alice", "Bob", "Carol">>

Range(f) == {f[i] : i \in DOMAIN f}
Sids == Range(SidOrder)
RoomIds == Range(RoomOrder)
Pids == Range(PidOrder)

\* Names of Socket.IO rooms: application room ids, and one personal room per
\* connection, named by its sid.
RoomNames == RoomIds \cup Sids

\* RoomCreate bodies a client posts: max_participants is optional.
RoomCreates ==
    {[name |-> "Demo"]} \cup {[name |-> "Demo", max_participants |-> m] : m \in {1, 2}}
DefaultMaxParticipants == 6

\* Confidence in hundredths; the gate of predict_sign_language is 0.7.
Threshold == 70
\* A frame posted to /api/predict, with what decides predict_sign on it:
\* whether the model and labels are loaded, whether decoding the image or
\* running the model raises, and the softmax maximum the model gives.
Frames ==
    [model_loaded : BOOLEAN, raises : BOOLEAN, confidence : {69, 70, 71}]

\* What predict_sign returns on a failure.
ClassifierFailure == [label |-> None, confidence |-> 0]

\* predict_sign: (None, 0.0) when the model is not loaded and when anything
\* raises, else (label, max softmax).
PredictSign(image_data) ==
    IF ~image_data.model_loaded THEN ClassifierFailure
    ELSE IF image_data.raises THEN ClassifierFailure
    ELSE [label |-> "HELLO", confidence |-> image_data.confidence]

ClassifierOutputs == {PredictSign(image_data) : image_data \in Frames}

VARIABLES
    rooms,          \* db.rooms: id of each stored room -> its Room document
    participants,   \* db.participants: set of Participant documents
    captions,       \* db.captions: sequence of Caption documents
    conn,           \* sid -> "new" | "live" | "gone"
    members,        \* Socket.IO room table: room name -> set of sids
    inbox,          \* sid -> sequence of events delivered to that client
    jreq,           \* REST join_room requests, in arrival order
    preq,           \* REST predict requests, in arrival order
    last,           \* history: sid -> the latest join_room / leave_room event the
                    \* server handled for the connection (the handlers keep none)
    gres,           \* history: the response to the latest GET /api/rooms/{room_id}
    ops             \* history: client inputs so far

vars == <<rooms, participants, captions, conn, members, inbox, jreq, preq, last, gres, ops>>

\* ------------------------------------------------------------- documents
\* Room(**room_data.dict()): an absent max_participants takes the default.
Room(room_data) ==
    [name |-> room_data.name,
     participants |-> <<>>,
     max_participants |->
        IF "max_participants" \in DOMAIN room_data
        THEN room_data.max_participants ELSE DefaultMaxParticipants]

Participant(n, room_id) ==
    [id |-> PidOrder[n], name |-> NameOrder[n], room_id |-> room_id]

Caption(n, text, participant_name, room_id, confidence) ==
    [id |-> CaptionOrder[n], text |-> text, participant_name |-> participant_name,
     room_id |-> room_id, confidence |-> confidence]

\* One outbound Socket.IO event; fields an event kind does not carry are None.
Event(ev, sid, pid, room_id, text) ==
    [ev |-> ev, sid |-> sid, pid |-> pid, room_id |-> room_id, text |-> text]

\* No join_room / leave_room event handled yet on a connection.
NoEvent == [ev |-> None, room_id |-> None, participant_id |-> None, was_member |-> FALSE]

\* No GET /api/rooms/{room_id} answered yet.  A response carries the status and,
\* as a set of at most one element, the Room of its body.
NoResponse == [room_id |-> None, status |-> 0, body |-> {}]

\* ------------------------------------------------------ Socket.IO server
Live == {s \in Sids : conn[s] = "live"}

\* sio.emit(..., room=room, skip_sid=skip): the connections the event goes to.
\* room=None addresses every connected client.
\* Mutant of Recipients: the room argument dropped, so every emit is a broadcast.
RecipientsEveryone(room, skip) == {s \in Sids : conn[s] = "live"} \ {skip}

Recipients(room, skip) ==
    (IF room = None THEN Live
     ELSE IF room \in RoomNames THEN members[room]
     ELSE {}) \ {skip}

\* sio.enter_room(sid, room) / sio.leave_room(sid, room)
EnterRoom(sid, room) == [members EXCEPT ![room] = @ \cup {sid}]

LeaveRoom(sid, room) == [members EXCEPT ![room] = @ \ {sid}]

\* An emit fixes its recipients once and queues one packet for each of them.
\* Mutant of Emit: every recipient is sent the event twice.
EmitTwice(event, room, skip) ==
    [s \in Sids |->
        IF s \in Recipients(room, skip)
        THEN Append(Append(inbox[s], event), event) ELSE inbox[s]]

\* Each recipient's packet is queued behind the packets queued for it before.
\* Mutant of Emit: the packet put in front of the recipient's queue.
EmitFront(event, room, skip) ==
    [s \in Sids |->
        IF s \in Recipients(room, skip) THEN <<event>> \o inbox[s] ELSE inbox[s]]

Emit(event, room, skip) ==
    [s \in Sids |->
        IF s \in Recipients(room, skip) THEN Append(inbox[s], event) ELSE inbox[s]]

\* ------------------------------------------------------------------ Init
Init ==
    /\ rooms = <<>>
    /\ participants = {}
    /\ captions = <<>>
    /\ conn = [s \in Sids |-> "new"]
    /\ members = [r \in RoomNames |-> {}]
    /\ inbox = [s \in Sids |-> <<>>]
    /\ jreq = <<>>
    /\ preq = <<>>
    /\ last = [s \in Sids |-> NoEvent]
    /\ gres = NoResponse
    /\ ops = 0

\* ------------------------------------------------------------ REST: rooms
\* POST /api/rooms
CreateRoom(room_data) ==
    /\ ops < MaxOps
    /\ Cardinality(DOMAIN rooms) < Len(RoomOrder)
    /\ LET id == RoomOrder[Cardinality(DOMAIN rooms) + 1]
       IN rooms' = [r \in DOMAIN rooms \cup {id} |->
                        IF r = id THEN Room(room_data) ELSE rooms[r]]
    /\ ops' = ops + 1
    /\ UNCHANGED <<gres, participants, captions, conn, members, inbox, jreq, preq, last>>

\* GET /api/rooms/{room_id}: one find_one read; 404 when it returns nothing,
\* else Room(**room_data), the stored document as it is at the read.
\* Mutant of GetRoomBody: the room as it was created, its participant list empty.
GetRoomBodyAsCreated(room_id) ==
    IF room_id \in DOMAIN rooms
    THEN {[rooms[room_id] EXCEPT !.participants = <<>>]} ELSE {}

GetRoomBody(room_id) ==
    IF room_id \in DOMAIN rooms THEN {rooms[room_id]} ELSE {}

GetRoomStatus(room_id) == IF room_id \in DOMAIN rooms THEN 200 ELSE 404

GetRoom(room_id) ==
    /\ ops < MaxOps
    /\ gres' = [room_id |-> room_id,
                status |-> GetRoomStatus(room_id),
                body |-> GetRoomBody(room_id)]
    /\ ops' = ops + 1
    /\ UNCHANGED <<rooms, participants, captions, conn, members, inbox, jreq, preq, last>>

\* POST /api/rooms/{room_id}/join, up to the capacity check: the find_one read
\* and the two checks made on the document it returned.  JoinStatus is what the
\* checks decide: 404, 400, or 200 when both pass.  A request's status is 0
\* until its response is sent.
\* Mutants of JoinStatus: the existence check answering as the capacity check
\* does, and the capacity check off by one.
JoinStatusMissingAsFull(room_id) ==
    IF room_id \notin DOMAIN rooms THEN 400
    ELSE IF Len(rooms[room_id].participants) >= rooms[room_id].max_participants THEN 400
    ELSE 200

JoinStatusOffByOne(room_id) ==
    IF room_id \notin DOMAIN rooms THEN 404
    ELSE IF Len(rooms[room_id].participants) > rooms[room_id].max_participants THEN 400
    ELSE 200

JoinStatus(room_id) ==
    IF room_id \notin DOMAIN rooms THEN 404
    ELSE IF Len(rooms[room_id].participants) >= rooms[room_id].max_participants THEN 400
    ELSE 200

JoinRoomFind(room_id) ==
    /\ ops < MaxOps
    /\ Len(jreq) < Len(PidOrder)
    /\ LET status == JoinStatus(room_id)
       IN jreq' = Append(jreq,
                    [room_id |-> room_id,
                     status |-> IF status = 200 THEN 0 ELSE status,
                     pc |-> IF status = 200 THEN "push" ELSE "done"])
    /\ ops' = ops + 1
    /\ UNCHANGED <<gres, rooms, participants, captions, conn, members, inbox, preq, last>>

\* Mutant of JoinRoomPush: the handler goes on to insert_one without the $push.
JoinRoomPushSkipped(j) ==
    /\ jreq[j].pc = "push"
    /\ jreq' = [jreq EXCEPT ![j].pc = "insert"]
    /\ UNCHANGED <<gres, rooms, participants, captions, conn, members, inbox, preq, last, ops>>

\* db.rooms.update_one({"id": room_id}, {"$push": {"participants": participant.id}})
JoinRoomPush(j) ==
    /\ jreq[j].pc = "push"
    /\ rooms' = [rooms EXCEPT ![jreq[j].room_id].participants =
                    Append(@, Participant(j, jreq[j].room_id).id)]
    /\ jreq' = [jreq EXCEPT ![j].pc = "insert"]
    /\ UNCHANGED <<gres, participants, captions, conn, members, inbox, preq, last, ops>>

\* db.participants.insert_one(participant.dict())
JoinRoomInsert(j) ==
    /\ jreq[j].pc = "insert"
    /\ participants' = participants \cup {Participant(j, jreq[j].room_id)}
    /\ jreq' = [jreq EXCEPT ![j].pc = "emit"]
    /\ UNCHANGED <<gres, rooms, captions, conn, members, inbox, preq, last, ops>>

\* sio.emit('participant_joined', ..., room=room_id); return participant
JoinRoomEmit(j) ==
    /\ jreq[j].pc = "emit"
    /\ LET participant == Participant(j, jreq[j].room_id)
       IN inbox' = Emit(Event("participant_joined", None, participant.id,
                              jreq[j].room_id, participant.name),
                        jreq[j].room_id, None)
    /\ jreq' = [jreq EXCEPT ![j].pc = "done", ![j].status = 200]
    /\ UNCHANGED <<gres, rooms, participants, captions, conn, members, preq, last, ops>>

\* ---------------------------------------------------------- REST: predict
\* POST /api/predict, up to the first await: predict_sign, the gate, and (when
\* the gate accepts) the find_one read of the participant. HTTPException is an
\* Exception, so the 404 raised inside the try block is caught by the handler's
\* own `except Exception` and leaves as a 500.
\* Mutant of GateAccepts: the threshold itself passes the gate.
GateAcceptsAtThreshold(out) == out.label # None /\ out.confidence >= Threshold

GateAccepts(out) == out.label # None /\ out.confidence > Threshold

FindParticipant(participant_id) == {p \in participants : p.id = participant_id}

\* The status decided before the first await: 200 (gate rejects), 500
\* (participant missing), or 0: no response yet, the caption is still to be
\* stored and sent.
\* Mutant of PredictStatus: a classifier failure answered as an error.
PredictStatusFailureIsError(out, participant_id) ==
    IF out.label = None THEN 500
    ELSE IF ~GateAccepts(out) THEN 200
    ELSE IF FindParticipant(participant_id) = {} THEN 500
    ELSE 0

PredictStatus(out, participant_id) ==
    IF ~GateAccepts(out) THEN 200
    ELSE IF FindParticipant(participant_id) = {} THEN 500
    ELSE 0

\* Response bodies: {"predicted_text", "confidence"}, or an error's detail.
Response(predicted_text, confidence, detail) ==
    [predicted_text |-> predicted_text, confidence |-> confidence, detail |-> detail]

PredictGate(out, room_id, participant_id) ==
    /\ ops < MaxOps
    /\ Len(preq) < Len(CaptionOrder)
    /\ LET accepted == GateAccepts(out)
           found == FindParticipant(participant_id)
       IN preq' = Append(preq,
                    [room_id |-> room_id,
                     participant_id |-> participant_id,
                     label |-> out.label,
                     confidence |-> out.confidence,
                     participant_name |->
                        IF accepted /\ found # {}
                        THEN (CHOOSE p \in found : TRUE).name ELSE None,
                     status |-> PredictStatus(out, participant_id),
                     response |->
                        IF ~accepted THEN Response(None, out.confidence, None)
                        ELSE IF found = {} THEN Response(None, 0, "Prediction failed")
                        ELSE Response(None, 0, None),
                     pc |-> IF accepted /\ found # {} THEN "insert" ELSE "done"])
    /\ ops' = ops + 1
    /\ UNCHANGED <<gres, rooms, participants, captions, conn, members, inbox, jreq, last>>

\* db.captions.insert_one(caption.dict())
PredictInsert(k) ==
    /\ preq[k].pc = "insert"
    /\ captions' = Append(captions,
                    Caption(k, preq[k].label, preq[k].participant_name,
                            preq[k].room_id, preq[k].confidence))
    /\ preq' = [preq EXCEPT ![k].pc = "emit"]
    /\ UNCHANGED <<gres, rooms, participants, conn, members, inbox, jreq, last, ops>>

\* sio.emit('new_caption', caption.dict(), room=request.room_id); return
PredictEmit(k) ==
    /\ preq[k].pc = "emit"
    /\ inbox' = Emit(Event("new_caption", None, CaptionOrder[k], preq[k].room_id,
                           preq[k].label),
                     preq[k].room_id, None)
    /\ preq' = [preq EXCEPT ![k].pc = "done", ![k].status = 200,
                             ![k].response =
                                Response(preq[k].label, preq[k].confidence, None)]
    /\ UNCHANGED <<gres, rooms, participants, captions, conn, members, jreq, last, ops>>

\* ------------------------------------------------------- Socket.IO events
\* A client connects: the server hands out the next sid and puts the connection
\* in its personal room; the connect handler only logs.
Connect ==
    /\ ops < MaxOps
    /\ \E i \in DOMAIN SidOrder :
        /\ conn[SidOrder[i]] = "new"
        /\ \A h \in 1..(i - 1) : conn[SidOrder[h]] # "new"
        /\ conn' = [conn EXCEPT ![SidOrder[i]] = "live"]
        /\ members' = [members EXCEPT ![SidOrder[i]] = {SidOrder[i]}]
    /\ ops' = ops + 1
    /\ UNCHANGED <<gres, rooms, participants, captions, inbox, jreq, preq, last>>

\* A client disconnects: the disconnect handler only logs; the server drops the
\* sid from every room it was in.
Disconnect(sid) ==
    /\ ops < MaxOps
    /\ conn[sid] = "live"
    /\ conn' = [conn EXCEPT ![sid] = "gone"]
    /\ members' = [r \in RoomNames |-> members[r] \ {sid}]
    /\ ops' = ops + 1
    /\ UNCHANGED <<gres, rooms, participants, captions, inbox, jreq, preq, last>>

\* join_room(sid, {room_id, participant_id})
SioJoinRoom(sid, room_id, participant_id) ==
    /\ ops < MaxOps
    /\ conn[sid] = "live"
    /\ IF room_id # None
       THEN /\ members' = EnterRoom(sid, room_id)
            /\ inbox' = Emit(Event("user_joined", sid, participant_id, None, None),
                             room_id, sid)
            /\ last' = [last EXCEPT ![sid] =
                            [ev |-> "join_room", room_id |-> room_id,
                             participant_id |-> participant_id,
                             was_member |-> sid \in members[room_id]]]
       ELSE UNCHANGED <<members, inbox, last>>
    /\ ops' = ops + 1
    /\ UNCHANGED <<gres, rooms, participants, captions, conn, jreq, preq>>

\* Mutant of SioLeaveRoom: the handler also deletes the room's participant
\* records from db.participants.
SioLeaveRoomDeletes(sid, room_id) ==
    /\ ops < MaxOps
    /\ conn[sid] = "live"
    /\ IF room_id # None
       THEN /\ members' = LeaveRoom(sid, room_id)
            /\ inbox' = Emit(Event("user_left", sid, None, None, None), room_id, sid)
            /\ last' = [last EXCEPT ![sid] =
                            [ev |-> "leave_room", room_id |-> room_id,
                             participant_id |->
                                IF last[sid].room_id = room_id
                                THEN last[sid].participant_id ELSE None,
                             was_member |-> sid \in members[room_id]]]
            /\ participants' = {p \in participants : p.room_id # room_id}
       ELSE UNCHANGED <<members, inbox, last, participants>>
    /\ ops' = ops + 1
    /\ UNCHANGED <<gres, rooms, captions, conn, jreq, preq>>

\* leave_room(sid, {room_id})
SioLeaveRoom(sid, room_id) ==
    /\ ops < MaxOps
    /\ conn[sid] = "live"
    /\ IF room_id # None
       THEN /\ members' = LeaveRoom(sid, room_id)
            /\ inbox' = Emit(Event("user_left", sid, None, None, None), room_id, sid)
            /\ last' = [last EXCEPT ![sid] =
                            [ev |-> "leave_room", room_id |-> room_id,
                             participant_id |->
                                IF last[sid].room_id = room_id
                                THEN last[sid].participant_id ELSE None,
                             was_member |-> sid \in members[room_id]]]
       ELSE UNCHANGED <<members, inbox, last>>
    /\ ops' = ops + 1
    /\ UNCHANGED <<gres, rooms, participants, captions, conn, jreq, preq>>

\* The three signaling handlers share one shape:
\* sio.emit(kind, {payload, 'from_sid': sid}, room=target_sid)
Relay(kind, sid, target_sid, payload) ==
    /\ ops < MaxOps
    /\ conn[sid] = "live"
    /\ inbox' = Emit(Event(kind, sid, None, None, payload), target_sid, None)
    /\ ops' = ops + 1
    /\ UNCHANGED <<gres, rooms, participants, captions, conn, members, jreq, preq, last>>

\* send_message(sid, {room_id, message, participant_name}): no check of the
\* sender or of the room; an absent room_id is room=None.
SendMessage(sid, room_id, message) ==
    /\ ops < MaxOps
    /\ conn[sid] = "live"
    /\ inbox' = Emit(Event("new_message", sid, None, None, message), room_id, None)
    /\ ops' = ops + 1
    /\ UNCHANGED <<gres, rooms, participants, captions, conn, members, jreq, preq, last>>

\* Chat texts a client sends.
Messages == {"hi"}

\* The opaque payload a client sends with each kind of signaling message.
Payload(kind) ==
    CASE kind = "webrtc_offer" -> "sdp-offer"
      [] kind = "webrtc_answer" -> "sdp-answer"
      [] kind = "webrtc_ice_candidate" -> "candidate"

WebrtcOffer(sid, target_sid) ==
    Relay("webrtc_offer", sid, target_sid, Payload("webrtc_offer"))

WebrtcAnswer(sid, target_sid) ==
    Relay("webrtc_answer", sid, target_sid, Payload("webrtc_answer"))

WebrtcIceCandidate(sid, target_sid) ==
    Relay("webrtc_ice_candidate", sid, target_sid, Payload("webrtc_ice_candidate"))

\* Participant ids a client can put in an event: those a join has returned.
KnownPids == {PidOrder[j] : j \in {i \in DOMAIN jreq : jreq[i].pc = "done" /\ jreq[i].status = 200}}

Next ==
    \/ \E room_data \in RoomCreates : CreateRoom(room_data)
    \/ \E room_id \in RoomIds : GetRoom(room_id)
    \/ \E room_id \in RoomIds : JoinRoomFind(room_id)
    \/ \E j \in DOMAIN jreq : JoinRoomPush(j)
    \/ \E j \in DOMAIN jreq : JoinRoomInsert(j)
    \/ \E j \in DOMAIN jreq : JoinRoomEmit(j)
    \/ \E out \in ClassifierOutputs, room_id \in RoomIds, participant_id \in Pids :
            PredictGate(out, room_id, participant_id)
    \/ \E k \in DOMAIN preq : PredictInsert(k)
    \/ \E k \in DOMAIN preq : PredictEmit(k)
    \/ Connect
    \/ \E sid \in Sids : Disconnect(sid)
    \/ \E sid \in Sids, room_id \in RoomNames \cup {None},
          participant_id \in KnownPids \cup {None} :
            SioJoinRoom(sid, room_id, participant_id)
    \/ \E sid \in Sids, room_id \in RoomNames \cup {None} : SioLeaveRoom(sid, room_id)
    \/ \E sid \in Sids, target_sid \in Sids \cup {None} : WebrtcOffer(sid, target_sid)
    \/ \E sid \in Sids, target_sid \in Sids \cup {None} : WebrtcAnswer(sid, target_sid)
    \/ \E sid \in Sids, target_sid \in Sids \cup {None} :
            WebrtcIceCandidate(sid, target_sid)
    \/ \E sid \in Sids, room_id \in RoomNames \cup {None}, message \in Messages :
            SendMessage(sid, room_id, message)

Spec == Init /\ [][Next]_vars

\* The room registry with the socket events that enter and leave its rooms.
NextRooms ==
    \/ \E room_data \in RoomCreates : CreateRoom(room_data)
    \/ \E room_id \in RoomIds : JoinRoomFind(room_id)
    \/ \E j \in DOMAIN jreq : JoinRoomPush(j)
    \/ \E j \in DOMAIN jreq : JoinRoomInsert(j)
    \/ \E j \in DOMAIN jreq : JoinRoomEmit(j)
    \/ Connect
    \/ \E sid \in Sids, room_id \in RoomIds, participant_id \in KnownPids \cup {None} :
            SioJoinRoom(sid, room_id, participant_id)
    \/ \E sid \in Sids, room_id \in RoomIds : SioLeaveRoom(sid, room_id)

SpecRooms == Init /\ [][NextRooms]_vars

\* The socket side alone: connections, socket rooms and the signaling relay.
\* A client may name any room in join_room / leave_room, a sid included.
NextSignaling ==
    \/ Connect
    \/ \E sid \in Sids : Disconnect(sid)
    \/ \E sid \in Sids, room_id \in RoomNames \cup {None} :
            SioJoinRoom(sid, room_id, None)
    \/ \E sid \in Sids, room_id \in RoomNames \cup {None} : SioLeaveRoom(sid, room_id)
    \/ \E sid \in Sids, target_sid \in Sids : WebrtcOffer(sid, target_sid)
    \/ \E sid \in Sids, target_sid \in Sids : WebrtcAnswer(sid, target_sid)
    \/ \E sid \in Sids, target_sid \in Sids : WebrtcIceCandidate(sid, target_sid)

SpecSignaling == Init /\ [][NextSignaling]_vars

\* PredictionRequest.participant_id: the id of the first participant, and one
\* that is stored only if a second join got that far.
PredictPids == {PidOrder[1], PidOrder[2]}

\* The caption pipeline with what feeds it: rooms, participants, and the
\* connections that enter and leave the socket rooms captions are sent to.
NextCaptions ==
    \/ \E room_data \in RoomCreates : CreateRoom(room_data)
    \/ \E room_id \in RoomIds : JoinRoomFind(room_id)
    \/ \E j \in DOMAIN jreq : JoinRoomPush(j)
    \/ \E j \in DOMAIN jreq : JoinRoomInsert(j)
    \/ \E j \in DOMAIN jreq : JoinRoomEmit(j)
    \/ \E out \in ClassifierOutputs, room_id \in RoomIds, participant_id \in PredictPids :
            PredictGate(out, room_id, participant_id)
    \/ \E k \in DOMAIN preq : PredictInsert(k)
    \/ \E k \in DOMAIN preq : PredictEmit(k)
    \/ Connect
    \/ \E sid \in Sids : Disconnect(sid)
    \/ \E sid \in Sids, room_id \in RoomIds : SioJoinRoom(sid, room_id, None)

SpecCaptions == Init /\ [][NextCaptions]_vars

\* The room registry alone: the REST handlers over db.rooms and db.participants.
NextRegistry ==
    \/ \E room_data \in RoomCreates : CreateRoom(room_data)
    \/ \E room_id \in RoomIds : GetRoom(room_id)
    \/ \E room_id \in RoomIds : JoinRoomFind(room_id)
    \/ \E j \in DOMAIN jreq : JoinRoomPush(j)
    \/ \E j \in DOMAIN jreq : JoinRoomInsert(j)
    \/ \E j \in DOMAIN jreq : JoinRoomEmit(j)

SpecRegistry == Init /\ [][NextRegistry]_vars

\* Everything that is sent to a room: the announcements of the socket and REST
\* joins, user_left, captions and chat messages.  One room is created, with
\* the default capacity; predictions name the first participant.
NextBroadcast ==
    \/ CreateRoom([name |-> "Demo"])
    \/ JoinRoomFind(RoomOrder[1])
    \/ \E j \in DOMAIN jreq : JoinRoomPush(j)
    \/ \E j \in DOMAIN jreq : JoinRoomInsert(j)
    \/ \E j \in DOMAIN jreq : JoinRoomEmit(j)
    \/ \E out \in ClassifierOutputs, room_id \in RoomIds :
            PredictGate(out, room_id, PidOrder[1])
    \/ \E k \in DOMAIN preq : PredictInsert(k)
    \/ \E k \in DOMAIN preq : PredictEmit(k)
    \/ Connect
    \/ \E sid \in Sids : Disconnect(sid)
    \/ \E sid \in Sids, room_id \in RoomIds : SioJoinRoom(sid, room_id, None)
    \/ \E sid \in Sids, room_id \in RoomIds : SioLeaveRoom(sid, room_id)
    \/ \E sid \in Sids, room_id \in RoomIds \cup {None}, message \in Messages :
            SendMessage(sid, room_id, message)

SpecBroadcast == Init /\ [][NextBroadcast]_vars

\* Every Socket.IO event handler, over a database that the REST handlers
\* fill: one room, its participants, and a caption for the first of them.
\* Events name the stored room or no room; signaling goes to the first connection.
SocketRooms == {RoomOrder[1], None}
SocketTargets == {SidOrder[1]}

NextSocket ==
    \/ CreateRoom([name |-> "Demo"])
    \/ JoinRoomFind(RoomOrder[1])
    \/ \E j \in DOMAIN jreq : JoinRoomPush(j)
    \/ \E j \in DOMAIN jreq : JoinRoomInsert(j)
    \/ \E j \in DOMAIN jreq : JoinRoomEmit(j)
    \/ PredictGate([label |-> "HELLO", confidence |-> 71], RoomOrder[1], PidOrder[1])
    \/ \E k \in DOMAIN preq : PredictInsert(k)
    \/ \E k \in DOMAIN preq : PredictEmit(k)
    \/ Connect
    \/ \E sid \in Sids : Disconnect(sid)
    \/ \E sid \in Sids, room_id \in SocketRooms,
          participant_id \in KnownPids \cup {None} :
            SioJoinRoom(sid, room_id, participant_id)
    \/ \E sid \in Sids, room_id \in SocketRooms : SioLeaveRoom(sid, room_id)
    \/ \E sid \in Sids, target_sid \in SocketTargets : WebrtcOffer(sid, target_sid)
    \/ \E sid \in Sids, target_sid \in SocketTargets : WebrtcAnswer(sid, target_sid)
    \/ \E sid \in Sids, target_sid \in SocketTargets :
            WebrtcIceCandidate(sid, target_sid)
    \/ \E sid \in Sids, room_id \in SocketRooms, message \in Messages :
            SendMessage(sid, room_id, message)

SpecSocket == Init /\ [][NextSocket]_vars

\* ======================================================== properties
InSeq(x, seq) == \E i \in DOMAIN seq : seq[i] = x

Min(a, b) == IF a <= b THEN a ELSE b

\* Join requests that found room r (every answer but 404), and those answered 200.
JoinsOn(r) == {j \in DOMAIN jreq : jreq[j].room_id = r /\ jreq[j].status # 404}
Admitted(r) == {j \in JoinsOn(r) : jreq[j].status = 200}

\* Nothing of the participant that join request j would have created exists.
NoTrace(j) ==
    /\ \A r \in DOMAIN rooms : ~InSeq(PidOrder[j], rooms[r].participants)
    /\ \A p \in participants : p.id # PidOrder[j]
    /\ \A s \in Sids : \A i \in DOMAIN inbox[s] :
            ~(inbox[s][i].ev = "participant_joined" /\ inbox[s][i].pid = PidOrder[j])

\* C1: a room never holds more participants than max_participants, and once
\* the N joins sent to a room of capacity C have all been answered, exactly
\* min(N, C) of them were admitted.
C1_CapacityUnderConcurrentJoins ==
    \A r \in DOMAIN rooms :
        /\ Len(rooms[r].participants) <= rooms[r].max_participants
        /\ (\A j \in JoinsOn(r) : jreq[j].pc = "done")
            => Cardinality(Admitted(r))
                    = Min(Cardinality(JoinsOn(r)), rooms[r].max_participants)

\* Participants of room r whose connection has sent leave_room for r.
Left(r) ==
    {last[s].participant_id :
        s \in {t \in Sids : last[t].ev = "leave_room" /\ last[t].room_id = r}}

Staying(r) ==
    {i \in DOMAIN rooms[r].participants : rooms[r].participants[i] \notin Left(r)}

\* C2: a leave frees a capacity slot: a join is refused with RoomFull only when
\* the participants of the room that have not left it fill the room.
C2_LeaveFreesSlot ==
    [][\A r \in RoomIds :
        (JoinRoomFind(r) /\ jreq'[Len(jreq')].status = 400)
            => Cardinality(Staying(r)) >= rooms[r].max_participants]_vars

\* C3: a join on a room id that is not stored is answered 404 at once, changes
\* no room, stores no participant and emits no event, then and ever after.
C3_JoinMissingRoomNotFound ==
    /\ [](\A j \in DOMAIN jreq :
            (jreq[j].room_id \notin DOMAIN rooms \/ jreq[j].status = 404)
                => jreq[j].status = 404 /\ jreq[j].pc = "done" /\ NoTrace(j))
    /\ [][\A r \in RoomIds :
            (JoinRoomFind(r) /\ r \notin DOMAIN rooms)
                => /\ jreq'[Len(jreq')].status = 404
                   /\ UNCHANGED <<rooms, participants, captions, members, inbox>>]_vars

C3_Witness ==
    \E j \in DOMAIN jreq :
        /\ jreq[j].status = 404
        /\ jreq[j].room_id \notin DOMAIN rooms
        /\ members[jreq[j].room_id] # {}

\* C4: a join on a stored room whose participant list has reached
\* max_participants is answered 400 at once, leaves the room's list as it was,
\* stores no participant and emits no event, then and ever after.
C4_JoinFullRoomNoEffect ==
    /\ [](\A j \in DOMAIN jreq :
            jreq[j].status = 400 => jreq[j].pc = "done" /\ NoTrace(j))
    /\ [][\A r \in RoomIds :
            (/\ JoinRoomFind(r)
             /\ r \in DOMAIN rooms
             /\ Len(rooms[r].participants) >= rooms[r].max_participants)
                => /\ jreq'[Len(jreq')].status = 400
                   /\ UNCHANGED <<rooms, participants, captions, members, inbox>>]_vars

C4_Witness ==
    \E j \in DOMAIN jreq :
        /\ jreq[j].status = 400
        /\ Len(rooms[jreq[j].room_id].participants)
                = rooms[jreq[j].room_id].max_participants
        /\ members[jreq[j].room_id] # {}

SignalingKinds == {"webrtc_offer", "webrtc_answer", "webrtc_ice_candidate"}

\* The step is connection sid sending a signaling message of this kind to target.
IsRelay(kind, sid, target) ==
    CASE kind = "webrtc_offer" -> WebrtcOffer(sid, target)
      [] kind = "webrtc_answer" -> WebrtcAnswer(sid, target)
      [] kind = "webrtc_ice_candidate" -> WebrtcIceCandidate(sid, target)

\* C5: a signaling message that connection S addresses to connection X is
\* delivered once to X, carrying the payload and S as its sender, and to no
\* other connection, whatever rooms the connections are in.  X is taken to be
\* a connection the server can address: connected, and in its personal room.
C5_RelayReachesOnlyTarget ==
    [][\A kind \in SignalingKinds, sid \in Sids, target \in Sids :
        (/\ IsRelay(kind, sid, target)
         /\ sid # target /\ conn[target] = "live" /\ target \in members[target])
            => /\ inbox'[target]
                    = Append(inbox[target], Event(kind, sid, None, None, Payload(kind)))
               /\ \A o \in Sids \ {target} : inbox'[o] = inbox[o]]_vars

\* C6: when a connection that is in room R disconnects, every other connection
\* in R is sent one user_left naming it, and it is in no room afterwards.  The
\* disconnect handler is all the code that runs for a disconnect and no later
\* event can carry the sid of a closed connection, so what this step does not
\* send is never sent.
C6_DisconnectAnnounced ==
    [][\A sid \in Sids :
        Disconnect(sid)
            => /\ \A r \in RoomIds : \A o \in members[r] \ {sid} :
                    sid \in members[r]
                        => inbox'[o]
                            = Append(inbox[o], Event("user_left", sid, None, None, None))
               /\ \A r \in RoomNames : sid \notin members'[r]]_vars

\* Supporting fact for the disconnect case: once a connection is closed, no
\* step sends a user_left naming it.
UserLeftCount(o, sid) ==
    Cardinality({i \in DOMAIN inbox[o] :
                    inbox[o][i].ev = "user_left" /\ inbox[o][i].sid = sid})

NoUserLeftAfterDisconnect ==
    [][\A o \in Sids, sid \in Sids :
        conn[sid] = "gone" => UserLeftCount(o, sid)' = UserLeftCount(o, sid)]_vars

\* Nothing of the caption that predict request k would have created exists.
NoCaption(k) ==
    /\ \A i \in DOMAIN captions : captions[i].id # CaptionOrder[k]
    /\ \A s \in Sids : \A i \in DOMAIN inbox[s] :
            ~(inbox[s][i].ev = "new_caption" /\ inbox[s][i].pid = CaptionOrder[k])

\* C7: a prediction with no label, or with confidence at or below 0.7, is
\* answered 200 with predicted_text null and the confidence; no caption is
\* stored and no new_caption is sent for it.
C7_GateRejects ==
    \A k \in DOMAIN preq :
        (preq[k].label = None \/ preq[k].confidence <= Threshold)
            => /\ preq[k].pc = "done"
               /\ preq[k].status = 200
               /\ preq[k].response = Response(None, preq[k].confidence, None)
               /\ NoCaption(k)

C7_Witness ==
    \E k \in DOMAIN preq :
        /\ preq[k].label # None
        /\ preq[k].confidence = Threshold
        /\ FindParticipant(preq[k].participant_id) # {}
        /\ members[preq[k].room_id] # {}
        /\ preq[k].pc = "done"

\* Captions stored, and new_caption events a connection has received, for
\* predict request k.
CaptionsOf(k) == {i \in DOMAIN captions : captions[i].id = CaptionOrder[k]}

NewCaptionsAt(s, k) ==
    {i \in DOMAIN inbox[s] :
        inbox[s][i].ev = "new_caption" /\ inbox[s][i].pid = CaptionOrder[k]}

\* C8: a prediction with a label, confidence above 0.7 and a stored participant
\* stores one caption (the label, the participant's name, the request's room
\* and the confidence), then sends one new_caption to each connection that is
\* in the request's room when it is sent and to nobody else, and is answered
\* 200 with (label, confidence).
C8_GateAccepts ==
    /\ [][(/\ Len(preq') = Len(preq) + 1
            /\ preq'[Len(preq')].label # None
            /\ preq'[Len(preq')].confidence > Threshold
            /\ \E q \in participants : q.id = preq'[Len(preq')].participant_id)
                => /\ preq'[Len(preq')].pc = "insert"
                   /\ captions' = captions /\ inbox' = inbox]_vars
    /\ [](\A k \in DOMAIN preq :
            /\ preq[k].pc = "insert" => CaptionsOf(k) = {}
            /\ preq[k].pc = "emit"
                => Cardinality(CaptionsOf(k)) = 1
                    /\ \A s \in Sids : NewCaptionsAt(s, k) = {}
            /\ (/\ preq[k].pc = "done"
                /\ preq[k].label # None /\ preq[k].confidence > Threshold
                /\ preq[k].participant_name # None)
                => /\ preq[k].status = 200
                   /\ preq[k].response
                        = Response(preq[k].label, preq[k].confidence, None)
                   /\ Cardinality(CaptionsOf(k)) = 1
                   /\ \A i \in CaptionsOf(k) :
                        /\ captions[i].text = preq[k].label
                        /\ captions[i].room_id = preq[k].room_id
                        /\ captions[i].confidence = preq[k].confidence
                        /\ \E q \in participants :
                            /\ q.id = preq[k].participant_id
                            /\ q.name = captions[i].participant_name
                   /\ \A s \in Sids : Cardinality(NewCaptionsAt(s, k)) <= 1)
    /\ [][\A k \in DOMAIN preq :
            (preq[k].pc = "emit" /\ preq'[k].pc = "done")
                => \A s \in Sids :
                    inbox'[s] =
                        IF s \in members[preq[k].room_id]
                        THEN Append(inbox[s],
                                Event("new_caption", None, CaptionOrder[k],
                                      preq[k].room_id, preq[k].label))
                        ELSE inbox[s]]_vars

C8_Witness ==
    \E k \in DOMAIN preq :
        /\ preq[k].pc = "done"
        /\ preq[k].response.predicted_text # None
        /\ \E s \in Sids : NewCaptionsAt(s, k) # {}
        /\ \E s \in Live : NewCaptionsAt(s, k) = {}

\* C9: a prediction that passes the gate for a participant id that is not
\* stored is answered with the 404 "Participant not found" error, and nothing
\* is stored or sent for it.
C9_ParticipantNotFoundSurfaced ==
    \A k \in DOMAIN preq :
        (/\ preq[k].label # None /\ preq[k].confidence > Threshold
         /\ preq[k].participant_name = None)
            => /\ preq[k].status = 404
               /\ NoCaption(k)

\* C10: a second leave_room for the room a connection has just left changes
\* nothing: no socket room, no stored document, and no client receives an event.
C10_SecondLeaveNoOp ==
    [][\A sid \in Sids, r \in RoomIds :
        (/\ SioLeaveRoom(sid, r)
         /\ last[sid].ev = "leave_room" /\ last[sid].room_id = r
         /\ last[sid].was_member)
            => UNCHANGED <<rooms, participants, captions, members, inbox>>]_vars

\* C11: GET of a room id answers 404 exactly when no room with that id is
\* stored, and a stored room is one that create_room stored and nothing ever
\* removes; for a stored id it answers 200 with the room's name and
\* max_participants as create_room stored them (6 when the body gave none)
\* and the participant list as it is at the read.  It changes nothing.
C11_GetRoom ==
    /\ [][\A r \in RoomIds :
            GetRoom(r)
                => /\ gres'.room_id = r
                   /\ (r \notin DOMAIN rooms) <=> (gres'.status = 404)
                   /\ r \notin DOMAIN rooms => gres'.body = {}
                   /\ r \in DOMAIN rooms
                        => /\ gres'.status = 200
                           /\ Cardinality(gres'.body) = 1
                           /\ \A room \in gres'.body :
                                /\ room.name = rooms[r].name
                                /\ room.max_participants = rooms[r].max_participants
                                /\ room.participants = rooms[r].participants
                   /\ UNCHANGED <<rooms, participants, captions, members, inbox>>]_vars
    /\ [][\A room_data \in RoomCreates :
            CreateRoom(room_data)
                => \E id \in RoomIds \ DOMAIN rooms :
                    /\ DOMAIN rooms' = DOMAIN rooms \cup {id}
                    /\ rooms'[id].name = room_data.name
                    /\ rooms'[id].participants = <<>>
                    /\ rooms'[id].max_participants =
                            IF "max_participants" \in DOMAIN room_data
                            THEN room_data.max_participants ELSE 6]_vars
    /\ [][/\ DOMAIN rooms \subseteq DOMAIN rooms'
           /\ DOMAIN rooms' # DOMAIN rooms
                => \E room_data \in RoomCreates : CreateRoom(room_data)
           /\ \A r \in DOMAIN rooms :
                /\ rooms'[r].name = rooms[r].name
                /\ rooms'[r].max_participants = rooms[r].max_participants]_vars

\* A room created without max_participants, read after a participant joined it.
C11_Witness ==
    /\ gres.status = 200
    /\ \E room \in gres.body :
        /\ room.max_participants = 6
        /\ room.participants # <<>>
        /\ room = rooms[gres.room_id]

\* Application rooms a connection is in: the rooms whose broadcasts reach it.
RoomsOf(s) == {r \in RoomIds : s \in members[r]}

\* C12: a connection is in at most one application room at a time, whatever
\* join_room and leave_room events it has sent.
C12_AtMostOneRoom == \A s \in Sids : Cardinality(RoomsOf(s)) <= 1

\* The connection of participant p: the one whose latest join_room named p.
BoundAs(s, p) == last[s].ev = "join_room" /\ last[s].participant_id = p

\* C13: no connection receives the announcement of its own join: neither the
\* user_joined of a join_room it sent, nor the participant_joined of the
\* participant it has joined as.
C13_JoinerNotAnnouncedToItself ==
    \A s \in Sids : \A i \in DOMAIN inbox[s] :
        /\ ~(inbox[s][i].ev = "user_joined" /\ inbox[s][i].sid = s)
        /\ ~(inbox[s][i].ev = "participant_joined" /\ BoundAs(s, inbox[s][i].pid))

\* The other half of C13 holds of both announcements: user_joined goes to each
\* connection that is in the room when join_room is handled, the sender apart;
\* participant_joined goes to each connection that is in the room when it is
\* sent, with no connection left out.
JoinAnnouncedToRoom ==
    /\ [][\A sid \in Sids, r \in RoomIds, pid \in Pids \cup {None} :
            SioJoinRoom(sid, r, pid)
                => \A o \in Sids :
                    inbox'[o] =
                        IF o \in members[r] \ {sid}
                        THEN Append(inbox[o], Event("user_joined", sid, pid, None, None))
                        ELSE inbox[o]]_vars
    /\ [][\A j \in DOMAIN jreq :
            (jreq[j].pc = "emit" /\ jreq'[j].pc = "done")
                => \A o \in Sids :
                    inbox'[o] =
                        IF o \in members[jreq[j].room_id]
                        THEN Append(inbox[o],
                                Event("participant_joined", None, PidOrder[j],
                                      jreq[j].room_id, NameOrder[j]))
                        ELSE inbox[o]]_vars

PresenceEvents == {"user_joined", "user_left"}

\* The step is the join_room / leave_room handler of connection sid for the
\* room r that observer o is in, and e is the event that handler sends.
Announces(e, o, r) ==
    /\ o \in members[r]
    /\ \/ e.ev = "user_joined" /\ SioJoinRoom(e.sid, r, e.pid) /\ e.sid \in members'[r]
       \/ e.ev = "user_left" /\ SioLeaveRoom(e.sid, r) /\ e.sid \notin members'[r]

EmitsTo(r) ==
    \/ \E sid \in Sids : SioJoinRoom(sid, r, last'[sid].participant_id)
    \/ \E sid \in Sids : SioLeaveRoom(sid, r)
    \/ \E sid \in Sids, message \in Messages : SendMessage(sid, r, message)
    \/ \E j \in DOMAIN jreq :
            jreq[j].room_id = r /\ jreq[j].pc = "emit" /\ jreq'[j].pc = "done"
    \/ \E k \in DOMAIN preq :
            preq[k].room_id = r /\ preq[k].pc = "emit" /\ preq'[k].pc = "done"

\* participant_joined events a connection has received for participant p.
ParticipantJoinedAt(s, p) ==
    {i \in DOMAIN inbox[s] :
        inbox[s][i].ev = "participant_joined" /\ inbox[s][i].pid = p}

\* C15: an event sent to a room reaches a connection at most once and only if
\* the connection is in the room when the event is sent: the step that sends
\* to room R adds one event to the inbox of connections that are in R before
\* it and nothing to any other; entering a room delivers nothing that was sent
\* before; and no caption or REST join announcement is held twice.
C15_AtMostOnceNoLateDelivery ==
    /\ [][\A r \in RoomIds :
            EmitsTo(r)
                => \A s \in Sids :
                    \/ inbox'[s] = inbox[s]
                    \/ /\ s \in members[r]
                       /\ conn[s] = "live"
                       /\ Len(inbox'[s]) = Len(inbox[s]) + 1
                       /\ SubSeq(inbox'[s], 1, Len(inbox[s])) = inbox[s]]_vars
    /\ [][\A s \in Sids :
            (\E r \in RoomIds : s \notin members[r] /\ s \in members'[r])
                => inbox'[s] = inbox[s]]_vars
    /\ [](\A s \in Sids :
            /\ \A k \in DOMAIN preq : Cardinality(NewCaptionsAt(s, k)) <= 1
            /\ \A p \in Pids : Cardinality(ParticipantJoinedAt(s, p)) <= 1)

\* A connection that entered a room after a join was announced to it: the
\* earlier member holds the announcement, the late joiner holds nothing.
C15_Witness ==
    \E r \in RoomIds, s \in Sids, late \in Sids :
        /\ s \in members[r] /\ late \in members[r]
        /\ \E i \in DOMAIN inbox[s] :
            inbox[s][i].ev = "participant_joined" /\ inbox[s][i].room_id = r
        /\ last[late] = [ev |-> "join_room", room_id |-> r, participant_id |-> None,
                          was_member |-> FALSE]
        /\ inbox[late] = <<>>

\* C16: predict_sign answers a failure (model not loaded, or anything raising)
\* with (None, 0.0), and a prediction on that output is answered 200 with
\* predicted_text null and confidence 0.0; no caption is stored and no
\* new_caption is sent for it.
C16_ClassifierFailureIsReject ==
    /\ \A image_data \in Frames :
            (~image_data.model_loaded \/ image_data.raises)
                <=> PredictSign(image_data) = [label |-> None, confidence |-> 0]
    /\ \A k \in DOMAIN preq :
            preq[k].label = None
                => /\ preq[k].confidence = 0
                   /\ preq[k].pc = "done"
                   /\ preq[k].status = 200
                   /\ preq[k].response.predicted_text = None
                   /\ preq[k].response.confidence = 0
                   /\ preq[k].response.detail = None
                   /\ NoCaption(k)

\* A failed classification for a stored participant, in a room with a listener.
C16_Witness ==
    \E k \in DOMAIN preq :
        /\ preq[k].label = None
        /\ preq[k].pc = "done"
        /\ FindParticipant(preq[k].participant_id) # {}
        /\ members[preq[k].room_id] # {}

\* C17: a user_left naming connection c reaches the connections of room R only
\* in the step of a leave_room{R} that c sent while it was in R; a leave_room
\* for a room its sender is not in sends nothing.
C17_UserLeftOnlyFromMember ==
    /\ [][\A o \in Sids :
            (/\ Len(inbox'[o]) = Len(inbox[o]) + 1
             /\ inbox'[o][Len(inbox'[o])].ev = "user_left")
                => LET c == inbox'[o][Len(inbox'[o])].sid
                   IN \E r \in RoomIds :
                        SioLeaveRoom(c, r) /\ c \in members[r] /\ o \in members[r]]_vars
    /\ [][\A sid \in Sids, r \in RoomIds :
            (SioLeaveRoom(sid, r) /\ sid \notin members[r]) => inbox' = inbox]_vars

\* C18: an event sent for a request that names room R reaches only connections
\* that are in R, and one sent for a request with no room id reaches nobody.
C18_RoomEventsStayInRoom ==
    [][\A r \in RoomIds \cup {None} :
        EmitsTo(r)
            => \A o \in Sids :
                inbox'[o] # inbox[o] => (r # None /\ o \in members[r])]_vars

\* The room of the participant that predict request k names.
OwningRooms(k) == {p.room_id : p \in FindParticipant(preq[k].participant_id)}

\* C19: a stored caption, and the new_caption sent for it, carries the room
\* of the participant whose name it carries.
C19_CaptionInParticipantsRoom ==
    \A k \in DOMAIN preq :
        /\ \A i \in CaptionsOf(k) : captions[i].room_id \in OwningRooms(k)
        /\ \A s \in Sids : \A i \in NewCaptionsAt(s, k) :
                inbox[s][i].room_id \in OwningRooms(k)

\* C20: every stored participant's id is in the participant list of the room
\* its room_id names, and no participant id is in two rooms or twice in one.
C20_ParticipantsListed ==
    /\ \A p \in participants :
            /\ p.room_id \in DOMAIN rooms
            /\ InSeq(p.id, rooms[p.room_id].participants)
    /\ \A q \in DOMAIN rooms, r \in DOMAIN rooms :
            \A i \in DOMAIN rooms[q].participants, k \in DOMAIN rooms[r].participants :
                rooms[q].participants[i] = rooms[r].participants[k]
                    => q = r /\ i = k

\* Between the awaited steps of two concurrent joins on one room: one
\* participant stored, the id of the other pushed and its record not yet stored.
C20_Witness ==
    \E j \in DOMAIN jreq, h \in DOMAIN jreq :
        /\ jreq[j].room_id = jreq[h].room_id
        /\ jreq[j].pc = "emit"
        /\ jreq[h].pc = "insert"
        /\ Participant(j, jreq[j].room_id) \in participants
        /\ Len(rooms[jreq[j].room_id].participants) = 2

\* The step is the handler of a Socket.IO event: join_room, leave_room,
\* disconnect, one of the three signaling events, or send_message.  (None of
\* them touches a REST request; only disconnect changes conn, and the
\* signaling events and send_message change nothing but inboxes.)
SocketEvent ==
    /\ UNCHANGED <<jreq, preq, gres>>
    /\ \/ /\ conn' # conn
          /\ \E sid \in Sids : Disconnect(sid)
       \/ /\ UNCHANGED <<conn, members, last>>
          /\ \/ \E kind \in SignalingKinds, sid \in Sids, target \in Sids \cup {None} :
                    IsRelay(kind, sid, target)
             \/ \E sid \in Sids, r \in RoomNames \cup {None}, message \in Messages :
                    SendMessage(sid, r, message)
       \/ /\ UNCHANGED conn
          /\ \/ \E sid \in Sids, r \in RoomNames \cup {None} :
                    SioJoinRoom(sid, r,
                        IF r = None THEN None ELSE last'[sid].participant_id)
             \/ \E sid \in Sids, r \in RoomNames \cup {None} : SioLeaveRoom(sid, r)

\* C21: the handler of a socket event (join_room, leave_room, disconnect,
\* webrtc_offer, webrtc_answer, webrtc_ice_candidate, send_message) adds,
\* removes and modifies nothing in db.rooms, db.participants and db.captions.
\* That is: every step leaves the three collections as they are, or it is not
\* the handler of a socket event.
C21_SocketEventsLeaveRegistry ==
    [][UNCHANGED <<rooms, participants, captions>> \/ ~SocketEvent]_vars

\* A connection bound as a stored participant of a stored room, with a caption
\* stored, that has left the room.
C21_Witness ==
    \E s \in Sids, p \in participants :
        /\ last[s].ev = "leave_room"
        /\ last[s].participant_id = p.id
        /\ last[s].room_id = p.room_id
        /\ last[s].was_member
        /\ InSeq(p.id, rooms[p.room_id].participants)
        /\ captions # <<>>
====
